---- MODULE Spec2Model ----
(***************************************************************************)
(* The nginx input plugin (plugins/inputs/nginx/nginx.go): the Gather      *)
(* fan-out/join over the configured URLs, the cached HTTP client, the      *)
(* response dispatch of gatherUrl, the stub-status parser and getTags.     *)
(*                                                                         *)
(* Strings are sequences of one-character strings wherever the code looks  *)
(* at characters (response bodies); addresses and header values are        *)
(* sequences of atoms in which every separator the code looks for          *)
(* ("://", ":", "[", "]", ";") is an atom of its own.                      *)
(***************************************************************************)
EXTENDS Integers, Sequences, FiniteSets, Bags, TLC

(***************************************************************************)
(* Bounds of the model.                                                    *)
(***************************************************************************)
\* configured addresses per collector (length of n.Urls)
MaxUrls == 2
\* Gather calls per behaviour
MaxCycles == 2

(***************************************************************************)
(* Characters and the string functions of the Go library the parser uses.  *)
(***************************************************************************)
Digits == {"0", "1", "2", "3", "4", "5", "6", "7", "8", "9"}

\* unicode.IsSpace restricted to the characters that occur in the bodies
IsSpace(c) == c \in {" ", "\n", "\t", "\r"}

DigitVal(c) ==
  CASE c = "0" -> 0 [] c = "1" -> 1 [] c = "2" -> 2 [] c = "3" -> 3
    [] c = "4" -> 4 [] c = "5" -> 5 [] c = "6" -> 6 [] c = "7" -> 7
    [] c = "8" -> 8 [] c = "9" -> 9

\* index of the first occurrence of c in s at or after position from, 0 if none
RECURSIVE IndexFrom(_, _, _)
IndexFrom(s, c, from) ==
  IF from > Len(s) THEN 0
  ELSE IF s[from] = c THEN from
  ELSE IndexFrom(s, c, from + 1)

\* index of the last occurrence of c in s, 0 if none
RECURSIVE LastIndexUpTo(_, _, _)
LastIndexUpTo(s, c, upto) ==
  IF upto = 0 THEN 0
  ELSE IF s[upto] = c THEN upto
  ELSE LastIndexUpTo(s, c, upto - 1)

LastIndex(s, c) == LastIndexUpTo(s, c, Len(s))

Contains(s, c) == IndexFrom(s, c, 1) # 0

RECURSIVE TrimLeft(_)
TrimLeft(s) ==
  IF s = << >> THEN s
  ELSE IF IsSpace(Head(s)) THEN TrimLeft(Tail(s))
  ELSE s

RECURSIVE TrimRight(_)
TrimRight(s) ==
  IF s = << >> THEN s
  ELSE IF IsSpace(s[Len(s)]) THEN TrimRight(SubSeq(s, 1, Len(s) - 1))
  ELSE s

\* mutant of TrimSpace: the line is parsed as it was read
TrimSpaceNot(s) == s

\* strings.TrimSpace
TrimSpace(s) == TrimRight(TrimLeft(s))

\* strings.Fields: the maximal runs of non-space characters, in order
RECURSIVE FieldsFrom(_, _, _)
FieldsFrom(s, cur, out) ==
  IF s = << >> THEN (IF cur = << >> THEN out ELSE Append(out, cur))
  ELSE IF IsSpace(Head(s))
       THEN FieldsFrom(Tail(s), << >>, IF cur = << >> THEN out ELSE Append(out, cur))
       ELSE FieldsFrom(Tail(s), Append(cur, Head(s)), out)

Fields(s) == FieldsFrom(s, << >>, << >>)

(***************************************************************************)
(* Errors.  Every error value is a record of the same shape: kind says     *)
(* which error it is, subject and detail are the strings its message is    *)
(* formatted from.                                                         *)
(***************************************************************************)
NoError == [kind |-> "nil", subject |-> << >>, detail |-> << >>]

\* io.EOF, returned by bufio.Reader.ReadString when the delimiter is missing
ErrEOF == [kind |-> "EOF", subject |-> << >>, detail |-> << >>]

\* *strconv.NumError{Func: "ParseUint", Num: s, Err: e}: its message is
\* strconv.ParseUint: parsing "s": e
NumError(s, e) == [kind |-> "NumError", subject |-> s, detail |-> <<e>>]

\* 18446744073709551615, the largest uint64, as digits
MaxUint64Digits ==
  <<"1", "8", "4", "4", "6", "7", "4", "4", "0", "7",
    "3", "7", "0", "9", "5", "5", "1", "6", "1", "5">>

RECURSIVE StripZeros(_)
StripZeros(s) ==
  IF s = << >> THEN s
  ELSE IF Head(s) = "0" THEN StripZeros(Tail(s))
  ELSE s

\* a > b for two digit strings of the same length
RECURSIVE DigitsGreater(_, _)
DigitsGreater(a, b) ==
  IF a = << >> THEN FALSE
  ELSE IF DigitVal(Head(a)) # DigitVal(Head(b)) THEN DigitVal(Head(a)) > DigitVal(Head(b))
  ELSE DigitsGreater(Tail(a), Tail(b))

ExceedsUint64(s) ==
  LET z == StripZeros(s)
  IN  \/ Len(z) > Len(MaxUint64Digits)
      \/ Len(z) = Len(MaxUint64Digits) /\ DigitsGreater(z, MaxUint64Digits)

\* the value of a digit string (the bodies of the model hold counters of at most
\* nine digits, besides one token above the largest uint64)
RECURSIVE DecimalValue(_, _)
DecimalValue(s, sofar) ==
  IF s = << >> THEN sofar
  ELSE DecimalValue(Tail(s), sofar * 10 + DigitVal(Head(s)))

\* mutant of ParseUint: a token is accepted when it merely starts with a digit
ParseUintLenient(s) ==
  IF s = << >> \/ Head(s) \notin Digits
  THEN [val |-> 0, err |-> NumError(s, "invalid syntax")]
  ELSE [val |-> DigitVal(Head(s)), err |-> NoError]

\* strconv.ParseUint(s, 10, 64)
ParseUint(s) ==
  IF s = << >> \/ \E i \in 1..Len(s) : s[i] \notin Digits
  THEN [val |-> 0, err |-> NumError(s, "invalid syntax")]
  ELSE IF ExceedsUint64(s)
  THEN [val |-> 0, err |-> NumError(s, "value out of range")]
  ELSE [val |-> DecimalValue(s, 0), err |-> NoError]

\* mutant of ReadString: text left at the end of the input is a line, io.EOF is
\* returned only when nothing is left
ReadStringToEnd(r, delim) ==
  LET i == IndexFrom(r, delim, 1)
  IN  IF i = 0
      THEN [line |-> r, rest |-> << >>, err |-> IF r = << >> THEN ErrEOF ELSE NoError]
      ELSE [line |-> SubSeq(r, 1, i), rest |-> SubSeq(r, i + 1, Len(r)), err |-> NoError]

\* bufio.Reader.ReadString(delim) on the unread input r: the text up to and
\* including the first delim and the input left, or io.EOF when r holds no delim
ReadString(r, delim) ==
  LET i == IndexFrom(r, delim, 1)
  IN  IF i = 0
      THEN [line |-> r, rest |-> << >>, err |-> ErrEOF]
      ELSE [line |-> SubSeq(r, 1, i), rest |-> SubSeq(r, i + 1, Len(r)), err |-> NoError]

(***************************************************************************)
(* The accumulator's records and the stub-status parser.                   *)
(***************************************************************************)
\* what a call leaves behind: the metrics it handed to acc.AddFields, the
\* error it returned, or a run-time panic (index out of range, nil pointer)
Returned(e) == [panic |-> FALSE, metrics |-> << >>, err |-> e]

Emitted(m) == [panic |-> FALSE, metrics |-> <<m>>, err |-> NoError]

Panicked == [panic |-> TRUE, metrics |-> << >>, err |-> NoError]

Metric(fields, tags) == [measurement |-> "nginx", fields |-> fields, tags |-> tags]

\* data[i] of a Go slice is in range iff i < len(data)
InRange(data, i) == i < Len(data)

\* data[i], Go's zero-based index
At(data, i) == data[i + 1]

\* mutant of gatherStubStatusUrl: the record is handed to the accumulator as soon
\* as the accepts/handled/requests line is parsed, the last line is not required
gatherStubStatusUrlPartial(r, tags) ==
  LET r1 == ReadString(r, ":")
      r2 == ReadString(r1.rest, "\n")
      active == ParseUint(TrimSpace(r2.line))
      r3 == ReadString(r2.rest, "\n")
      r4 == ReadString(r3.rest, "\n")
      data == Fields(r4.line)
  IN  IF r1.err # NoError \/ r2.err # NoError \/ active.err # NoError
         \/ r3.err # NoError \/ r4.err # NoError \/ Len(data) < 3
      THEN Returned(ErrEOF)
      ELSE Emitted(Metric([active |-> active.val,
                           accepts |-> ParseUint(At(data, 0)).val,
                           handled |-> ParseUint(At(data, 1)).val,
                           requests |-> ParseUint(At(data, 2)).val,
                           reading |-> 0, writing |-> 0, waiting |-> 0], tags))

\* gatherStubStatusUrl(r, tags, acc)
gatherStubStatusUrl(r, tags) ==
  LET r1 == ReadString(r, ":")
  IN  IF r1.err # NoError THEN Returned(r1.err) ELSE
  LET r2 == ReadString(r1.rest, "\n")
  IN  IF r2.err # NoError THEN Returned(r2.err) ELSE
  LET active == ParseUint(TrimSpace(r2.line))
  IN  IF active.err # NoError THEN Returned(active.err) ELSE
  LET r3 == ReadString(r2.rest, "\n")
  IN  IF r3.err # NoError THEN Returned(r3.err) ELSE
  LET r4 == ReadString(r3.rest, "\n")
  IN  IF r4.err # NoError THEN Returned(r4.err) ELSE
  LET data == Fields(r4.line)
  IN  IF ~InRange(data, 0) THEN Panicked ELSE
  LET accepts == ParseUint(At(data, 0))
  IN  IF accepts.err # NoError THEN Returned(accepts.err) ELSE
      IF ~InRange(data, 1) THEN Panicked ELSE
  LET handled == ParseUint(At(data, 1))
  IN  IF handled.err # NoError THEN Returned(handled.err) ELSE
      IF ~InRange(data, 2) THEN Panicked ELSE
  LET requests == ParseUint(At(data, 2))
  IN  IF requests.err # NoError THEN Returned(requests.err) ELSE
  LET r5 == ReadString(r4.rest, "\n")
  IN  IF r5.err # NoError THEN Returned(r5.err) ELSE
  LET data2 == Fields(r5.line)
  IN  IF ~InRange(data2, 1) THEN Panicked ELSE
  LET reading == ParseUint(At(data2, 1))
  IN  IF reading.err # NoError THEN Returned(reading.err) ELSE
      IF ~InRange(data2, 3) THEN Panicked ELSE
  LET writing == ParseUint(At(data2, 3))
  IN  IF writing.err # NoError THEN Returned(writing.err) ELSE
      IF ~InRange(data2, 5) THEN Panicked ELSE
  LET waiting == ParseUint(At(data2, 5))
  IN  IF waiting.err # NoError THEN Returned(waiting.err) ELSE
      Emitted(Metric([active |-> active.val,
                      accepts |-> accepts.val,
                      handled |-> handled.val,
                      requests |-> requests.val,
                      reading |-> reading.val,
                      writing |-> writing.val,
                      waiting |-> waiting.val], tags))

(***************************************************************************)
(* Addresses.  url.Parse and net.SplitHostPort on sequences of atoms.      *)
(***************************************************************************)
PathAtoms == {"/", "/status", "/x"}

PortAtoms == {"80", "8080", "9443"}

NilURL == [isNil |-> TRUE, Scheme |-> "", Host |-> << >>, Path |-> << >>]

URL(scheme, host, path) == [isNil |-> FALSE, Scheme |-> scheme, Host |-> host, Path |-> path]

\* the atoms of s before its first path atom, and the atoms from there on
RECURSIVE AuthorityLen(_, _)
AuthorityLen(s, n) ==
  IF n >= Len(s) THEN Len(s)
  ELSE IF s[n + 1] \in PathAtoms THEN n
  ELSE AuthorityLen(s, n + 1)

\* net/url validOptionalPort: empty, or ":" followed by digits only
validOptionalPort(p) ==
  \/ p = << >>
  \/ /\ Head(p) = ":"
     /\ \A i \in 2..Len(p) : p[i] \in PortAtoms

\* net/url parseHost: the port after the host must be numeric
validHost(h) ==
  IF h # << >> /\ Head(h) = "["
  THEN LET end == LastIndex(h, "]")
       IN  end # 0 /\ validOptionalPort(SubSeq(h, end + 1, Len(h)))
  ELSE LET i == LastIndex(h, ":")
       IN  i = 0 \/ validOptionalPort(SubSeq(h, i, Len(h)))

\* url.Parse(u): the parsed URL, or failure (missing scheme, invalid port)
urlParse(u) ==
  IF u # << >> /\ Head(u) = "://"
  THEN [ok |-> FALSE, url |-> NilURL]
  ELSE IF Len(u) >= 2 /\ u[2] = "://"
  THEN LET rest == SubSeq(u, 3, Len(u))
           n == AuthorityLen(rest, 0)
           host == SubSeq(rest, 1, n)
       IN  IF validHost(host)
           THEN [ok |-> TRUE, url |-> URL(u[1], host, SubSeq(rest, n + 1, Len(rest)))]
           ELSE [ok |-> FALSE, url |-> NilURL]
  ELSE [ok |-> TRUE, url |-> URL("", << >>, u)]

\* (*url.URL).String() of a non-nil URL
String(addr) ==
  IF addr.Scheme = "" THEN addr.Path
  ELSE <<addr.Scheme, "://">> \o addr.Host \o addr.Path

\* net.SplitHostPort(hostport)
SplitHostPort(h) ==
  LET i == LastIndex(h, ":")
      fail == [ok |-> FALSE, host |-> << >>, port |-> << >>]
  IN  IF i = 0 THEN fail
      ELSE IF Head(h) = "["
      THEN LET end == IndexFrom(h, "]", 1)
           IN  IF end = 0 \/ end + 1 # i THEN fail
               ELSE IF IndexFrom(h, "[", 2) # 0 \/ IndexFrom(h, "]", end + 1) # 0 THEN fail
               ELSE [ok |-> TRUE, host |-> SubSeq(h, 2, end - 1), port |-> SubSeq(h, i + 1, Len(h))]
      ELSE LET host == SubSeq(h, 1, i - 1)
           IN  IF Contains(host, ":") THEN fail
               ELSE IF Contains(h, "[") \/ Contains(h, "]") THEN fail
               ELSE [ok |-> TRUE, host |-> host, port |-> SubSeq(h, i + 1, Len(h))]

\* getTags(addr)
getTags(addr) ==
  LET sp == SplitHostPort(addr.Host)
  IN  IF sp.ok
      THEN [server |-> sp.host, port |-> sp.port]
      ELSE [server |-> addr.Host,
            port |-> IF addr.Scheme = "http" THEN <<"80">>
                     ELSE IF addr.Scheme = "https" THEN <<"443">>
                     ELSE << >>]

(***************************************************************************)
(* Responses and gatherUrl.                                                *)
(***************************************************************************)
\* http.StatusOK
StatusOK == 200

NoResponse == [StatusCode |-> 0, Status |-> << >>, ContentType |-> << >>, Body |-> << >>]

\* what n.client.Get hands back: a response, or a transport error
Got(resp) == [err |-> NoError, resp |-> resp]

GetFailed(e) == [err |-> e, resp |-> NoResponse]

\* mutant of BeforeSemicolon: the whole header value
WholeValue(s) == s

\* strings.Split(s, ";")[0]
BeforeSemicolon(s) ==
  LET i == IndexFrom(s, ";", 1)
  IN  IF i = 0 THEN s ELSE SubSeq(s, 1, i - 1)

\* gatherStatusUrl(r, tags, acc): the decoder of the JSON status document; a body
\* that is a JSON object is decoded into one record, any other body is an error
gatherStatusUrl(r, tags) ==
  IF r # << >> /\ Head(r) = "{" /\ r[Len(r)] = "}"
  THEN Emitted([measurement |-> "nginx", fields |-> [document |-> r], tags |-> tags])
  ELSE Returned([kind |-> "json", subject |-> << >>, detail |-> << >>])

\* mutant of gatherUrl: every status code from 200 to 299 passes the status test
gatherUrlAny2xx(addr, got) ==
  IF addr.isNil THEN Panicked @@ [closed |-> 0]
  ELSE IF got.err # NoError
  THEN Returned([kind |-> "request", subject |-> String(addr), detail |-> got.err.detail]) @@ [closed |-> 0]
  ELSE IF got.resp.StatusCode \notin 200..299
  THEN Returned([kind |-> "status", subject |-> String(addr), detail |-> got.resp.Status]) @@ [closed |-> 1]
  ELSE LET contentType == BeforeSemicolon(got.resp.ContentType)
       IN  IF contentType = <<"text/plain">> THEN gatherStubStatusUrl(got.resp.Body, getTags(addr)) @@ [closed |-> 1]
           ELSE IF contentType = <<"application/json">> THEN gatherStatusUrl(got.resp.Body, getTags(addr)) @@ [closed |-> 1]
           ELSE Returned([kind |-> "contentType", subject |-> String(addr), detail |-> contentType]) @@ [closed |-> 1]

\* mutant of gatherUrl: the body is closed by the parsers only, so the returns
\* before the content-type switch leave it open
gatherUrlCloseInParser(addr, got) ==
  IF addr.isNil THEN Panicked @@ [closed |-> 0]
  ELSE IF got.err # NoError
  THEN Returned([kind |-> "request", subject |-> String(addr), detail |-> got.err.detail]) @@ [closed |-> 0]
  ELSE IF got.resp.StatusCode # StatusOK
  THEN Returned([kind |-> "status", subject |-> String(addr), detail |-> got.resp.Status]) @@ [closed |-> 0]
  ELSE LET contentType == BeforeSemicolon(got.resp.ContentType)
       IN  IF contentType = <<"text/plain">> THEN gatherStubStatusUrl(got.resp.Body, getTags(addr)) @@ [closed |-> 1]
           ELSE IF contentType = <<"application/json">> THEN gatherStatusUrl(got.resp.Body, getTags(addr)) @@ [closed |-> 1]
           ELSE Returned([kind |-> "contentType", subject |-> String(addr), detail |-> contentType]) @@ [closed |-> 0]

\* gatherUrl(addr, acc) given what n.client.Get returns: what the call leaves
\* behind, and how often the deferred resp.Body.Close() ran
gatherUrl(addr, got) ==
  IF addr.isNil THEN Panicked @@ [closed |-> 0]
  ELSE IF got.err # NoError
  THEN Returned([kind |-> "request", subject |-> String(addr), detail |-> got.err.detail])
       @@ [closed |-> 0]
  ELSE IF got.resp.StatusCode # StatusOK
  THEN Returned([kind |-> "status", subject |-> String(addr), detail |-> got.resp.Status])
       @@ [closed |-> 1]
  ELSE LET contentType == BeforeSemicolon(got.resp.ContentType)
       IN  IF contentType = <<"text/plain">>
           THEN gatherStubStatusUrl(got.resp.Body, getTags(addr)) @@ [closed |-> 1]
           ELSE IF contentType = <<"application/json">>
           THEN gatherStatusUrl(got.resp.Body, getTags(addr)) @@ [closed |-> 1]
           ELSE Returned([kind |-> "contentType", subject |-> String(addr),
                          detail |-> contentType]) @@ [closed |-> 1]

(***************************************************************************)
(* The HTTP client factory.                                                *)
(***************************************************************************)
\* time.Second, in milliseconds
Second == 1000

\* the files that hold loadable TLS material; any other non-empty path does not
LoadablePaths == {"ca.pem", "cert.pem", "key.pem"}

NilClient == [isNil |-> TRUE, Timeout |-> 0,
              TLSClientConfig |-> [ca |-> "", cert |-> "", key |-> "", insecure |-> FALSE]]

\* internal.GetTLSConfig(SSLCert, SSLKey, SSLCA, InsecureSkipVerify)
GetTLSConfig(cert, key, ca, insecure) ==
  IF \E f \in {cert, key, ca} : f # "" /\ f \notin LoadablePaths
  THEN [err |-> [kind |-> "tls", subject |-> << >>, detail |-> << >>],
        cfg |-> NilClient.TLSClientConfig]
  ELSE [err |-> NoError,
        cfg |-> [ca |-> ca, cert |-> cert, key |-> key, insecure |-> insecure]]

\* mutant of createHttpClient: the requested timeout is used as it is
createHttpClientNoFloor(cert, key, ca, insecure, timeout) ==
  LET tls == GetTLSConfig(cert, key, ca, insecure)
  IN  IF tls.err # NoError
      THEN [err |-> tls.err, client |-> NilClient, ResponseTimeout |-> timeout]
      ELSE [err |-> NoError,
            client |-> [isNil |-> FALSE, Timeout |-> timeout, TLSClientConfig |-> tls.cfg],
            ResponseTimeout |-> timeout]

\* mutant of createHttpClient: the floor is applied to the timeout of the client
\* only, n.ResponseTimeout keeps the requested value
createHttpClientLocalFloor(cert, key, ca, insecure, timeout) ==
  LET tls == GetTLSConfig(cert, key, ca, insecure)
      t == IF timeout < Second THEN Second * 5 ELSE timeout
  IN  IF tls.err # NoError
      THEN [err |-> tls.err, client |-> NilClient, ResponseTimeout |-> timeout]
      ELSE [err |-> NoError,
            client |-> [isNil |-> FALSE, Timeout |-> t, TLSClientConfig |-> tls.cfg],
            ResponseTimeout |-> timeout]

\* n.createHttpClient(): the client or the error it returns, and the value it
\* leaves in n.ResponseTimeout
createHttpClient(cert, key, ca, insecure, timeout) ==
  LET tls == GetTLSConfig(cert, key, ca, insecure)
      t == IF timeout < Second THEN Second * 5 ELSE timeout
  IN  IF tls.err # NoError
      THEN [err |-> tls.err, client |-> NilClient, ResponseTimeout |-> timeout]
      ELSE [err |-> NoError,
            client |-> [isNil |-> FALSE, Timeout |-> t, TLSClientConfig |-> tls.cfg],
            ResponseTimeout |-> t]

(***************************************************************************)
(* The inputs the model draws from.                                        *)
(***************************************************************************)
\* http://localhost/status
AddrLocalhost == <<"http", "://", "localhost", "/status">>

\* https://example.com:9443/x
AddrExample == <<"https", "://", "example.com", ":", "9443", "/x">>

\* ://bad, which url.Parse rejects (missing protocol scheme)
AddrBad == <<"://", "bad">>

Addresses == {AddrLocalhost, AddrExample, AddrBad}

UrlLists == UNION {[1..n -> Addresses] : n \in 0..MaxUrls}

\* SSLCA, SSLCert, SSLKey, InsecureSkipVerify
TLSSettings ==
  { [SSLCA |-> "", SSLCert |-> "", SSLKey |-> "", InsecureSkipVerify |-> FALSE],
    [SSLCA |-> "ca.pem", SSLCert |-> "cert.pem", SSLKey |-> "key.pem", InsecureSkipVerify |-> TRUE],
    [SSLCA |-> "missing.pem", SSLCert |-> "", SSLKey |-> "", InsecureSkipVerify |-> FALSE] }

\* unset, 200ms, 1s, 10s
RequestedTimeouts == {0, 200, Second, 10 * Second}

(***************************************************************************)
(* Stub-status bodies.                                                     *)
(***************************************************************************)
ActiveLabel ==
  <<"A", "c", "t", "i", "v", "e", " ", "c", "o", "n", "n", "e", "c", "t", "i", "o",
    "n", "s", ":">>

HeaderLine ==
  <<"s", "e", "r", "v", "e", "r", " ", "a", "c", "c", "e", "p", "t", "s", " ", "h",
    "a", "n", "d", "l", "e", "d", " ", "r", "e", "q", "u", "e", "s", "t", "s">>

ReadingLabel == <<"R", "e", "a", "d", "i", "n", "g", ":">>

WritingLabel == <<"W", "r", "i", "t", "i", "n", "g", ":">>

WaitingLabel == <<"W", "a", "i", "t", "i", "n", "g", ":">>

DigitChar(d) ==
  CASE d = 0 -> "0" [] d = 1 -> "1" [] d = 2 -> "2" [] d = 3 -> "3" [] d = 4 -> "4"
    [] d = 5 -> "5" [] d = 6 -> "6" [] d = 7 -> "7" [] d = 8 -> "8" [] d = 9 -> "9"

\* the decimal digits of n, as nginx prints a counter
RECURSIVE Decimal(_)
Decimal(n) ==
  IF n < 10 THEN <<DigitChar(n)>>
  ELSE Append(Decimal(n \div 10), DigitChar(n % 10))

\* the page ngx_http_stub_status_module prints, with the token toks[i] at the
\* i-th of the seven numeric positions
StubBodyOf(toks) ==
  ActiveLabel \o <<" ">> \o toks[1] \o <<" ", "\n">>
  \o HeaderLine \o <<"\n">>
  \o <<" ">> \o toks[2] \o <<" ">> \o toks[3] \o <<" ">> \o toks[4] \o <<" ", "\n">>
  \o ReadingLabel \o <<" ">> \o toks[5] \o <<" ">>
  \o WritingLabel \o <<" ">> \o toks[6] \o <<" ">>
  \o WaitingLabel \o <<" ">> \o toks[7] \o <<" ", "\n">>

\* the seven counters in the order they appear on the page
StubBody(active, accepts, handled, requests, reading, writing, waiting) ==
  StubBodyOf(<<Decimal(active), Decimal(accepts), Decimal(handled), Decimal(requests),
               Decimal(reading), Decimal(writing), Decimal(waiting)>>)

\* the body of the example: Active connections: 3 / 4 4 5 / Reading: 1 Writing: 2 Waiting: 0
ExampleBody == StubBody(3, 4, 4, 5, 1, 2, 0)

\* a page whose accepts/handled/requests line has two tokens
ShortCountsBody ==
  ActiveLabel \o <<" ", "3", " ", "\n">> \o HeaderLine \o <<"\n">>
  \o <<" ", "4", " ", "4", " ", "\n">>
  \o ReadingLabel \o <<" ", "1", " ">> \o WritingLabel \o <<" ", "2", " ">>
  \o WaitingLabel \o <<" ", "0", " ", "\n">>

\* a page cut off before the Reading/Writing/Waiting line
TruncatedBody ==
  ActiveLabel \o <<" ", "3", " ", "\n">> \o HeaderLine \o <<"\n">>
  \o <<" ", "4", " ", "4", " ", "5", " ", "\n">>

(***************************************************************************)
(* What the polled servers answer.                                         *)
(***************************************************************************)
Response(code, status, contentType, body) ==
  [StatusCode |-> code, Status |-> status, ContentType |-> contentType, Body |-> body]

PlainText(body) == Response(StatusOK, <<"200 OK">>, <<"text/plain">>, body)

Responses ==
  { PlainText(ExampleBody),
    PlainText(ShortCountsBody),
    PlainText(TruncatedBody),
    Response(500, <<"500 Internal Server Error">>, <<"text/plain">>, ExampleBody),
    Response(StatusOK, <<"200 OK">>, <<"text/html">>, <<"<", "p", ">">>),
    Response(StatusOK, <<"200 OK">>, <<"application/json">>, <<"{", "}">>) }

\* a request that ends without a response: refused, or cut by the client's Timeout
TransportErrors ==
  { [kind |-> "transport", subject |-> << >>, detail |-> <<"Client.Timeout exceeded">>] }

GetOutcomes == {Got(r) : r \in Responses} \cup {GetFailed(e) : e \in TransportErrors}

(***************************************************************************)
(* State.                                                                  *)
(***************************************************************************)
\* Gather calls that may be in progress at once
MaxCallers == 2

Callers == 1..MaxCallers

VARIABLES
  Urls,                \* n.Urls
  SSLCA,               \* n.SSLCA
  SSLCert,             \* n.SSLCert
  SSLKey,              \* n.SSLKey
  InsecureSkipVerify,  \* n.InsecureSkipVerify
  ResponseTimeout,     \* n.ResponseTimeout.Duration, in milliseconds
  client,              \* n.client
  overlap,             \* whether the caller starts a Gather while another one runs
  cycle,               \* Gather calls started so far
  pc,                  \* pc[t]: where Gather call t stands
  idx,                 \* idx[t]: addresses of n.Urls the range loop has taken
  wg,                  \* wg[t]: the counter of the call's sync.WaitGroup
  ret,                 \* ret[t]: what the call returned
  acc,                 \* acc[t]: the accumulator handed to the call
  worker,              \* worker[t][k]: the goroutine launched for n.Urls[k]
  panic                \* the run-time panic that ended the process, "" if none

vars == <<Urls, SSLCA, SSLCert, SSLKey, InsecureSkipVerify, ResponseTimeout, client,
          overlap, cycle, pc, idx, wg, ret, acc, worker, panic>>

config == <<Urls, SSLCA, SSLCert, SSLKey, InsecureSkipVerify>>

\* ret[t] of a call that has not returned
NoReturn == [kind |-> "none", subject |-> << >>, detail |-> << >>]

EmptyAcc == [metrics |-> EmptyBag, errors |-> EmptyBag]

\* acc.AddFields: the record, labelled with the index of the address it is for
AddFields(a, ms, k) ==
  IF ms = << >> THEN a
  ELSE [a EXCEPT !.metrics = @ (+) SetToBag({[by |-> k, metric |-> ms[1]]})]

\* acc.AddError: a nil error is ignored
AddError(a, e, k) ==
  IF e = NoError THEN a
  ELSE [a EXCEPT !.errors = @ (+) SetToBag({[by |-> k, error |-> e]})]

NoWorker == [pc |-> "none", addr |-> NilURL, got |-> GetFailed(NoError), err |-> NoError,
             closed |-> 0]

Slots == 1..MaxUrls

TypeOK ==
  /\ Urls \in UrlLists
  /\ cycle \in 0..MaxCycles
  /\ pc \in [Callers -> {"idle", "check", "create", "loop"}]
  /\ idx \in [Callers -> 0..MaxUrls]
  /\ wg \in [Callers -> 0..MaxUrls]
  /\ \A t \in Callers : \A k \in Slots :
       worker[t][k].pc \in {"none", "get", "resp", "ret", "done", "exit", "panic"}
  /\ panic \in {"", "nil pointer dereference", "index out of range"}

\* the collector as init() builds it and the configuration file fills it in:
\* addresses and TLS settings as configured, response_timeout left unset
StartOfProcess ==
  /\ client = NilClient
  /\ overlap = FALSE
  /\ cycle = 0
  /\ pc = [t \in Callers |-> "idle"]
  /\ idx = [t \in Callers |-> 0]
  /\ wg = [t \in Callers |-> 0]
  /\ ret = [t \in Callers |-> NoReturn]
  /\ acc = [t \in Callers |-> EmptyAcc]
  /\ worker = [t \in Callers |-> [k \in Slots |-> NoWorker]]
  /\ panic = ""

Configured(s) ==
  /\ SSLCA = s.SSLCA
  /\ SSLCert = s.SSLCert
  /\ SSLKey = s.SSLKey
  /\ InsecureSkipVerify = s.InsecureSkipVerify

Init ==
  /\ Urls \in UrlLists
  /\ \E s \in TLSSettings : Configured(s)
  /\ ResponseTimeout = 0
  /\ StartOfProcess

(***************************************************************************)
(* Gather.                                                                 *)
(***************************************************************************)
Idle(t) == pc[t] = "idle"

\* the caller enters n.Gather(acc) with a fresh accumulator.  Calls do not overlap
\* unless overlap is set; a call takes the lowest free position.
Call(t) ==
  /\ panic = ""
  /\ Idle(t)
  /\ cycle < MaxCycles
  /\ overlap \/ \A u \in Callers : Idle(u)
  /\ \A u \in Callers : u < t => ~Idle(u)
  /\ cycle' = cycle + 1
  /\ pc' = [pc EXCEPT ![t] = "check"]
  /\ idx' = [idx EXCEPT ![t] = 0]
  /\ wg' = [wg EXCEPT ![t] = 0]
  /\ ret' = [ret EXCEPT ![t] = NoReturn]
  /\ acc' = [acc EXCEPT ![t] = EmptyAcc]
  /\ worker' = [worker EXCEPT ![t] = [k \in Slots |-> NoWorker]]
  /\ UNCHANGED <<config, ResponseTimeout, client, overlap, panic>>

\* mutant of NeedsClient: the client is rebuilt when the timeout field has changed
NeedsClientOrStale(c, timeout) == c.isNil \/ c.Timeout # timeout

\* if n.client == nil
NeedsClient(c, timeout) == c.isNil

CheckClient(t) ==
  /\ panic = ""
  /\ pc[t] = "check"
  /\ pc' = [pc EXCEPT ![t] = IF NeedsClient(client, ResponseTimeout) THEN "create" ELSE "loop"]
  /\ UNCHANGED <<config, ResponseTimeout, client, overlap, cycle, idx, wg, ret, acc,
                 worker, panic>>

\* mutant of AfterCreate: the construction error is dropped and polling goes on
AfterCreateIgnoringError(c) == [pc |-> "loop", ret |-> NoReturn]

\* if err != nil { return err }; n.client = client
AfterCreate(c) ==
  IF c.err # NoError THEN [pc |-> "idle", ret |-> c.err]
  ELSE [pc |-> "loop", ret |-> NoReturn]

CreateClient(t) ==
  /\ panic = ""
  /\ pc[t] = "create"
  /\ LET c == createHttpClient(SSLCert, SSLKey, SSLCA, InsecureSkipVerify, ResponseTimeout)
         next == AfterCreate(c)
     IN  /\ ResponseTimeout' = c.ResponseTimeout
         /\ client' = IF next.pc = "loop" THEN c.client ELSE client
         /\ pc' = [pc EXCEPT ![t] = next.pc]
         /\ ret' = [ret EXCEPT ![t] = next.ret]
  /\ UNCHANGED <<config, overlap, cycle, idx, wg, acc, worker, panic>>

ParseError(u) == [kind |-> "parse", subject |-> u, detail |-> <<"Unable to parse address">>]

\* whether the loop body goes on to wg.Add(1) and the go statement after url.Parse
LaunchesWorker(parsed) == TRUE

\* one iteration of for _, u := range n.Urls
Launch(t) ==
  /\ panic = ""
  /\ pc[t] = "loop"
  /\ idx[t] < Len(Urls)
  /\ LET k == idx[t] + 1
         parsed == urlParse(Urls[k])
     IN  /\ idx' = [idx EXCEPT ![t] = k]
         /\ acc' = [acc EXCEPT ![t] =
                      IF parsed.ok THEN @ ELSE AddError(@, ParseError(Urls[k]), k)]
         /\ IF LaunchesWorker(parsed)
            THEN /\ wg' = [wg EXCEPT ![t] = @ + 1]
                 /\ worker' = [worker EXCEPT ![t][k] = [NoWorker EXCEPT !.pc = "get",
                                                                       !.addr = parsed.url]]
            ELSE UNCHANGED <<wg, worker>>
  /\ UNCHANGED <<config, ResponseTimeout, client, overlap, cycle, pc, ret, panic>>

\* mutant of WaitReleased: Gather does not wait for the workers
WaitReleasedAtOnce(n) == TRUE

\* wg.Wait() returns when the counter is zero
WaitReleased(n) == n = 0

\* mutant of GatherResult: an endpoint's error becomes Gather's error
GatherResultFromErrors(a) ==
  IF a.errors = EmptyBag THEN NoError
  ELSE (CHOOSE x \in BagToSet(a.errors) : TRUE).error

\* return nil
GatherResult(a) == NoError

\* wg.Wait(); return nil
Wait(t) ==
  /\ panic = ""
  /\ pc[t] = "loop"
  /\ idx[t] = Len(Urls)
  /\ WaitReleased(wg[t])
  /\ pc' = [pc EXCEPT ![t] = "idle"]
  /\ ret' = [ret EXCEPT ![t] = GatherResult(acc[t])]
  /\ UNCHANGED <<config, ResponseTimeout, client, overlap, cycle, idx, wg, acc, worker, panic>>

(***************************************************************************)
(* The goroutine of one address.                                           *)
(***************************************************************************)
\* resp, err := n.client.Get(addr.String()): a nil addr or a nil client is a
\* nil pointer dereference, which ends the process
Get(t, k) ==
  /\ panic = ""
  /\ worker[t][k].pc = "get"
  /\ IF worker[t][k].addr.isNil \/ client.isNil
     THEN /\ panic' = "nil pointer dereference"
          /\ worker' = [worker EXCEPT ![t][k].pc = "panic"]
     ELSE /\ \E got \in GetOutcomes :
               worker' = [worker EXCEPT ![t][k].pc = "resp", ![t][k].got = got]
          /\ UNCHANGED panic
  /\ UNCHANGED <<config, ResponseTimeout, client, overlap, cycle, pc, idx, wg, ret, acc>>

\* the rest of gatherUrl: status, content type, parser, deferred Body.Close().
\* A panic in the parser runs the deferred calls and ends the process.
Process(t, k) ==
  /\ panic = ""
  /\ worker[t][k].pc = "resp"
  /\ LET res == gatherUrl(worker[t][k].addr, worker[t][k].got)
     IN  IF res.panic
         THEN /\ panic' = "index out of range"
              /\ worker' = [worker EXCEPT ![t][k].pc = "panic",
                                          ![t][k].closed = @ + res.closed]
              /\ UNCHANGED acc
         ELSE /\ acc' = [acc EXCEPT ![t] = AddFields(@, res.metrics, k)]
              /\ worker' = [worker EXCEPT ![t][k].pc = "ret",
                                          ![t][k].err = res.err,
                                          ![t][k].closed = @ + res.closed]
              /\ UNCHANGED panic
  /\ UNCHANGED <<config, ResponseTimeout, client, overlap, cycle, pc, idx, wg, ret>>

\* acc.AddError(n.gatherUrl(addr, acc))
Report(t, k) ==
  /\ panic = ""
  /\ worker[t][k].pc = "ret"
  /\ acc' = [acc EXCEPT ![t] = AddError(@, worker[t][k].err, k)]
  /\ worker' = [worker EXCEPT ![t][k].pc = "done"]
  /\ UNCHANGED <<config, ResponseTimeout, client, overlap, cycle, pc, idx, wg, ret, panic>>

\* defer wg.Done()
Done(t, k) ==
  /\ panic = ""
  /\ worker[t][k].pc = "done"
  /\ wg' = [wg EXCEPT ![t] = @ - 1]
  /\ worker' = [worker EXCEPT ![t][k].pc = "exit"]
  /\ UNCHANGED <<config, ResponseTimeout, client, overlap, cycle, pc, idx, ret, acc, panic>>

(***************************************************************************)
(* The configuration is reloaded between two calls.                        *)
(***************************************************************************)
Reconfigure ==
  /\ panic = ""
  /\ \A t \in Callers : Idle(t)
  /\ 0 < cycle /\ cycle < MaxCycles
  /\ \E s \in TLSSettings, d \in RequestedTimeouts :
       /\ <<s.SSLCA, s.SSLCert, s.SSLKey, s.InsecureSkipVerify, d>>
            # <<SSLCA, SSLCert, SSLKey, InsecureSkipVerify, ResponseTimeout>>
       /\ SSLCA' = s.SSLCA
       /\ SSLCert' = s.SSLCert
       /\ SSLKey' = s.SSLKey
       /\ InsecureSkipVerify' = s.InsecureSkipVerify
       /\ ResponseTimeout' = d
  /\ UNCHANGED <<Urls, client, overlap, cycle, pc, idx, wg, ret, acc, worker, panic>>

Next ==
  \/ \E t \in Callers : Call(t)
  \/ \E t \in Callers : CheckClient(t)
  \/ \E t \in Callers : CreateClient(t)
  \/ \E t \in Callers : Launch(t)
  \/ \E t \in Callers : Wait(t)
  \/ \E t \in Callers, k \in Slots : Get(t, k)
  \/ \E t \in Callers, k \in Slots : Process(t, k)
  \/ \E t \in Callers, k \in Slots : Report(t, k)
  \/ \E t \in Callers, k \in Slots : Done(t, k)

\* Gather calls one after the other on a collector whose configuration stays
Spec == Init /\ [][Next]_vars

(***************************************************************************)
(* Gather calls with the configuration reloaded in between.                *)
(***************************************************************************)
\* addresses per collector where the configuration is reloaded
MaxUrlsReload == 1

InitReload ==
  /\ Urls \in UNION {[1..n -> Addresses] : n \in 0..MaxUrlsReload}
  /\ \E s \in TLSSettings : Configured(s)
  /\ ResponseTimeout \in RequestedTimeouts
  /\ StartOfProcess

NextReload == Next \/ Reconfigure

SpecReload == InitReload /\ [][NextReload]_vars

(***************************************************************************)
(* The bodies the parser is run on: pages in the printed layout with any   *)
(* of three tokens at each numeric position, and pages put together from   *)
(* whole and damaged pieces.                                               *)
(***************************************************************************)
TokenChoices == { <<"0">>, <<"1", "2">>, <<"7", "x">> }

TokenPages == { StubBodyOf(toks) : toks \in [1..7 -> TokenChoices] }

\* the label up to the colon, whole, without its colon, or missing
LabelPieces ==
  { ActiveLabel,
    SubSeq(ActiveLabel, 1, Len(ActiveLabel) - 1),
    << >> }

\* the rest of the first line
ActivePieces ==
  { <<" ", "3", " ", "\n">>,
    <<" ", "3">>,
    <<" ", "-", "1", "\n">>,
    <<"\n">>,
    <<" ", "3", " ", "4", "\n">>,
    <<" ", "0", "0", "7", "\n">>,
    <<" ", "1", "8", "4", "4", "6", "7", "4", "4", "0", "7", "3", "7", "0", "9", "5", "5", "1", "6", "1", "6", "\n">> }

\* the header line
HeaderPieces ==
  { HeaderLine \o <<"\n">>,
    HeaderLine,
    << >> }

\* the accepts/handled/requests line
CountsPieces ==
  { <<" ", "4", " ", "4", " ", "5", " ", "\n">>,
    <<"4", " ", "4", " ", "5">>,
    <<"4", " ", "4", "\n">>,
    <<"4", "\n">>,
    <<"\n">>,
    <<"4", " ", "4", " ", "5", " ", "6", "\n">>,
    <<"4", " ", "+", "4", " ", "5", "\n">>,
    << >> }

\* the Reading/Writing/Waiting line
StatePieces ==
  { ReadingLabel \o <<" ", "1", " ">> \o WritingLabel \o <<" ", "2", " ">> \o WaitingLabel \o <<" ", "0", " ", "\n">>,
    ReadingLabel \o <<" ", "1", " ">> \o WritingLabel \o <<" ", "2", " ">> \o WaitingLabel \o <<" ", "0">>,
    ReadingLabel \o <<" ", "1", " ">> \o WritingLabel \o <<" ", "2", "\n">>,
    ReadingLabel \o <<" ", "1", " ">> \o WritingLabel \o <<" ", "2", " ">> \o WaitingLabel \o <<"\n">>,
    ReadingLabel \o <<"\n">>,
    <<"1", " ", "2", " ", "0", "\n">>,
    <<"\n">>,
    <<"1", " ", "2", " ", "3", " ", "4", " ", "5", " ", "6", " ", "7", "\n">>,
    << >> }

PiecedPages ==
  { l \o a \o h \o c \o s :
      l \in LabelPieces, a \in ActivePieces, h \in HeaderPieces,
      c \in CountsPieces, s \in StatePieces }

\* 18446744073709551616, one more than the largest uint64
TooLarge ==
  <<"1", "8", "4", "4", "6", "7", "4", "4", "0", "7",
    "3", "7", "0", "9", "5", "5", "1", "6", "1", "6">>

\* printed pages with one counter too large for a uint64
TooLargePages ==
  { StubBodyOf([[i \in 1..7 |-> tok] EXCEPT ![j] = TooLarge]) :
      tok \in {<<"0">>, <<"7", "x">>}, j \in 1..7 }

Bodies ==
  TokenPages \cup TooLargePages \cup PiecedPages
    \cup {ExampleBody, ShortCountsBody, TruncatedBody}

\* a worker of a running Gather call holds the response to its request: status
\* 200, content type text/plain and any of the bodies
InitParse ==
  /\ Urls \in {<<AddrLocalhost>>, <<AddrExample>>}
  /\ Configured([SSLCA |-> "", SSLCert |-> "", SSLKey |-> "", InsecureSkipVerify |-> FALSE])
  /\ ResponseTimeout = createHttpClient("", "", "", FALSE, 0).ResponseTimeout
  /\ client = createHttpClient("", "", "", FALSE, 0).client
  /\ overlap = FALSE
  /\ cycle = 1
  /\ pc = [t \in Callers |-> IF t = 1 THEN "loop" ELSE "idle"]
  /\ idx = [t \in Callers |-> IF t = 1 THEN 1 ELSE 0]
  /\ wg = [t \in Callers |-> IF t = 1 THEN 1 ELSE 0]
  /\ ret = [t \in Callers |-> NoReturn]
  /\ acc = [t \in Callers |-> EmptyAcc]
  /\ \E b \in Bodies :
       worker = [t \in Callers |-> [k \in Slots |->
                   IF t = 1 /\ k = 1
                   THEN [NoWorker EXCEPT !.pc = "resp",
                                         !.addr = urlParse(Urls[1]).url,
                                         !.got = Got(PlainText(b))]
                   ELSE NoWorker]]
  /\ panic = ""

\* the steps of the call in progress
NextParse ==
  \/ \E t \in Callers, k \in Slots : Process(t, k)
  \/ \E t \in Callers, k \in Slots : Report(t, k)
  \/ \E t \in Callers, k \in Slots : Done(t, k)
  \/ \E t \in Callers : Wait(t)

SpecParse == InitParse /\ [][NextParse]_vars

(***************************************************************************)
(* What the properties speak of.                                           *)
(***************************************************************************)
\* Gather call t has returned
HasReturned(t) == pc[t] = "idle" /\ ret[t] # NoReturn

\* the call is over: Gather returned, or a panic ended the process
Over(t) == HasReturned(t) \/ (panic # "" /\ pc[t] # "idle")

\* gatherUrl of this worker has returned
Processed(w) == w.pc \in {"ret", "done", "exit"}

\* the request of this worker has ended, with a response or a transport error
Answered(w) == Processed(w) \/ w.pc = "resp" \/ (w.pc = "panic" /\ ~w.addr.isNil)

\* the records and the errors the accumulator of call t holds for address k
NumRecords(t, k) ==
  LET mine == {x \in BagToSet(acc[t].metrics) : x.by = k}
  IN  BagCardinality([x \in mine |-> acc[t].metrics[x]])

NumErrors(t, k) ==
  LET mine == {x \in BagToSet(acc[t].errors) : x.by = k}
  IN  BagCardinality([x \in mine |-> acc[t].errors[x]])

\* the lines of s that end in a newline, without it
RECURSIVE TerminatedLines(_)
TerminatedLines(s) ==
  LET i == IndexFrom(s, "\n", 1)
  IN  IF i = 0 THEN << >>
      ELSE <<SubSeq(s, 1, i - 1)>> \o TerminatedLines(SubSeq(s, i + 1, Len(s)))

\* an unsigned decimal integer
IsDecimal(tok) == tok # << >> /\ \A i \in 1..Len(tok) : tok[i] \in Digits

IsUint64(tok) == IsDecimal(tok) /\ ~ExceedsUint64(tok)

\* the tokens at the seven numeric positions of a body, << >> if a position is
\* missing: the rest of the line of the first colon, and tokens 0, 1, 2 and
\* 1, 3, 5 of the third and fourth complete line
SevenTokens(b) ==
  LET colon == IndexFrom(b, ":", 1)
      lines == TerminatedLines(SubSeq(b, colon + 1, Len(b)))
  IN  IF colon = 0 \/ Len(lines) < 4 THEN << >>
      ELSE LET counts == Fields(lines[3])
               state == Fields(lines[4])
           IN  IF Len(counts) < 3 \/ Len(state) < 6 THEN << >>
               ELSE <<TrimSpace(lines[1]), counts[1], counts[2], counts[3],
                      state[2], state[4], state[6]>>

\* all seven fields of the body can be read and are unsigned integers
AllSevenParse(b) ==
  /\ SevenTokens(b) # << >>
  /\ \A i \in 1..7 : IsUint64(SevenTokens(b)[i])

\* the endpoint answered with a success status, a recognized content type and
\* a valid body
Succeeds(got) ==
  /\ got.err = NoError
  /\ got.resp.StatusCode \in 200..299
  /\ \/ /\ BeforeSemicolon(got.resp.ContentType) = <<"text/plain">>
        /\ AllSevenParse(got.resp.Body)
     \/ /\ BeforeSemicolon(got.resp.ContentType) = <<"application/json">>
        /\ got.resp.Body = <<"{", "}">>

(***************************************************************************)
(* Properties of the fan-out and of Gather's result.                       *)
(***************************************************************************)
\* C1: when a Gather call is over, the accumulator holds exactly one record and no
\* error for every endpoint that answered with a success status, a recognized
\* content type and a valid body, and exactly one error and no record for every
\* endpoint that answered otherwise or did not answer; no endpoint's failure
\* keeps another endpoint's result out of the accumulator.
C1_OneRecordOrOneErrorPerEndpoint ==
  \A t \in Callers : \A k \in Slots :
    (Over(t) /\ Answered(worker[t][k])) =>
       IF Succeeds(worker[t][k].got)
       THEN NumRecords(t, k) = 1 /\ NumErrors(t, k) = 0
       ELSE NumRecords(t, k) = 0 /\ NumErrors(t, k) = 1

\* C2: an address that url.Parse rejects gets an error in the accumulator and no
\* worker: nothing is launched and nothing is fetched for it.
C2_UnparseableAddressLaunchesNoWorker ==
  \A t \in Callers : \A k \in 1..Len(Urls) :
    (pc[t] = "loop" /\ idx[t] >= k /\ ~urlParse(Urls[k]).ok) =>
       /\ NumErrors(t, k) = 1
       /\ worker[t][k].pc = "none"

C4_GatherReturnsNil ==
  \A t \in Callers :
    HasReturned(t) =>
      /\ ~client.isNil => ret[t] = NoError
      /\ ret[t] # NoError => ret[t].kind = "tls" /\ client.isNil

\* a call has returned nil although both of its endpoints failed
C4_Witness ==
  /\ HasReturned(1)
  /\ ret[1] = NoError
  /\ NumErrors(1, 1) = 1 /\ NumErrors(1, 2) = 1
  /\ worker[1][1].err.kind = "status" /\ worker[1][2].err.kind = "request"

\* C5: a call in which the TLS material cannot be loaded returns that error, and
\* has parsed no address, launched no worker and written nothing to the
\* accumulator; no call gets to the addresses without a client.
C5_ConstructionFailureAborts ==
  \A t \in Callers :
    /\ pc[t] = "loop" => ~client.isNil
    /\ (HasReturned(t) /\ client.isNil) =>
         /\ ret[t] = GetTLSConfig(SSLCert, SSLKey, SSLCA, InsecureSkipVerify).err
         /\ ret[t] # NoError
         /\ idx[t] = 0 /\ wg[t] = 0
         /\ acc[t] = EmptyAcc
         /\ \A k \in Slots : worker[t][k] = NoWorker

\* a call on two addresses has returned the construction error, for the second time
C5_Witness ==
  /\ HasReturned(1)
  /\ ret[1].kind = "tls"
  /\ cycle = 2
  /\ Len(Urls) = 2
  /\ acc[1] = EmptyAcc

\* C6: the client is constructed only while there is none; a construction that
\* fails leaves the field unset, one that succeeds sets it, and once set it is
\* never replaced nor its timeout changed, whatever the configuration becomes.
C6_ClientBuiltOnce ==
  [][ /\ ~client.isNil => client' = client
      /\ \A t \in Callers :
           /\ (pc[t] # "create" /\ pc'[t] = "create") => client.isNil
           /\ (pc[t] = "create" /\ pc'[t] # "create") =>
                client'.isNil =
                  (GetTLSConfig(SSLCert, SSLKey, SSLCA, InsecureSkipVerify).err # NoError) ]_vars

\* a second call polls with the client of the first although the TLS settings and
\* the timeout field have changed since
C6_Witness ==
  /\ cycle = 2
  /\ pc[1] = "loop"
  /\ ~client.isNil
  /\ client.TLSClientConfig.ca # SSLCA
  /\ client.Timeout = 5 * Second /\ ResponseTimeout = 10 * Second

(***************************************************************************)
(* Properties of the stub-status parser.                                   *)
(***************************************************************************)
\* the response went to gatherStubStatusUrl
IsPlain200(got) ==
  /\ got.err = NoError
  /\ got.resp.StatusCode = StatusOK
  /\ BeforeSemicolon(got.resp.ContentType) = <<"text/plain">>

\* gatherStubStatusUrl has run on the body of this worker's response
Parsed(w) == IsPlain200(w.got) /\ (Processed(w) \/ w.pc = "panic")

CounterTuples == [1..7 -> {0, 12}] \cup {<<3, 4, 4, 5, 1, 2, 0>>}

\* the page nginx prints for each tuple of counters
PageOfCounters ==
  [v \in CounterTuples |-> StubBody(v[1], v[2], v[3], v[4], v[5], v[6], v[7])]

\* C7: a body in the stub-status layout yields exactly one record, named nginx,
\* whose fields are exactly active, accepts, handled, requests, reading, writing
\* and waiting with the numbers printed at their positions, under the tags of the
\* address, and no error; the example body yields 3, 4, 4, 5, 1, 2, 0.
C7_WellFormedBodyYieldsRecord ==
  \A t \in Callers : \A k \in Slots :
    Parsed(worker[t][k]) =>
      \A v \in CounterTuples :
        worker[t][k].got.resp.Body = PageOfCounters[v] =>
          /\ worker[t][k].pc # "panic"
          /\ worker[t][k].err = NoError
          /\ NumRecords(t, k) = 1
          /\ [by |-> k,
              metric |-> [measurement |-> "nginx",
                          fields |-> [active |-> v[1], accepts |-> v[2], handled |-> v[3],
                                      requests |-> v[4], reading |-> v[5],
                                      writing |-> v[6], waiting |-> v[7]],
                          tags |-> getTags(worker[t][k].addr)]]
               \in BagToSet(acc[t].metrics)

\* the example body has been parsed into its record
C7_Witness ==
  /\ worker[1][1].pc = "ret"
  /\ worker[1][1].got.resp.Body = ExampleBody
  /\ NumRecords(1, 1) = 1
  /\ \E x \in BagToSet(acc[1].metrics) :
       /\ x.metric.fields.active = 3 /\ x.metric.fields.requests = 5
       /\ x.metric.fields.waiting = 0
       /\ x.metric.tags = [server |-> <<"example.com">>, port |-> <<"9443">>]

\* C8: the parser hands the accumulator at most one record per body, and one only
\* if all seven fields could be read and parsed and it returns no error; a body
\* on which it fails anywhere leaves no record.
C8_AllOrNothing ==
  \A t \in Callers : \A k \in Slots :
    Parsed(worker[t][k]) =>
      /\ NumRecords(t, k) <= 1
      /\ NumRecords(t, k) = 1 =>
           AllSevenParse(worker[t][k].got.resp.Body) /\ worker[t][k].err = NoError
      /\ (worker[t][k].err # NoError \/ worker[t][k].pc = "panic") => NumRecords(t, k) = 0

\* a body cut off before the Reading/Writing/Waiting line has failed with EOF
\* and left no record
C8_Witness ==
  /\ worker[1][1].pc = "exit"
  /\ worker[1][1].got.resp.Body = TruncatedBody
  /\ worker[1][1].err = ErrEOF
  /\ NumRecords(1, 1) = 0 /\ NumErrors(1, 1) = 1

\* the body has a complete accepts/handled/requests line of fewer than three
\* tokens, or a complete Reading/Writing/Waiting line of fewer than six
HasShortLine(b) ==
  LET colon == IndexFrom(b, ":", 1)
      lines == TerminatedLines(SubSeq(b, colon + 1, Len(b)))
  IN  /\ colon # 0
      /\ \/ Len(lines) >= 3 /\ Len(Fields(lines[3])) < 3
         \/ Len(lines) >= 4 /\ Len(Fields(lines[4])) < 6

\* C9: a body with too few tokens on a line ends its parse in an error that the
\* worker hands to the accumulator: the worker does not panic, it leaves no
\* record, and its error is in the accumulator when it is done.
C9_ShortLineIsCapturedError ==
  \A t \in Callers : \A k \in Slots :
    (Parsed(worker[t][k]) /\ HasShortLine(worker[t][k].got.resp.Body)) =>
       /\ worker[t][k].pc # "panic"
       /\ worker[t][k].err # NoError
       /\ NumRecords(t, k) = 0
       /\ worker[t][k].pc \in {"done", "exit"} => NumErrors(t, k) = 1

FieldNames ==
  << <<"a", "c", "t", "i", "v", "e">>,
     <<"a", "c", "c", "e", "p", "t", "s">>,
     <<"h", "a", "n", "d", "l", "e", "d">>,
     <<"r", "e", "q", "u", "e", "s", "t", "s">>,
     <<"r", "e", "a", "d", "i", "n", "g">>,
     <<"w", "r", "i", "t", "i", "n", "g">>,
     <<"w", "a", "i", "t", "i", "n", "g">> >>

\* the message of an error: strconv.ParseUint: parsing "s": invalid syntax
ErrorText(e) ==
  IF e.kind = "NumError"
  THEN <<"s", "t", "r", "c", "o", "n", "v", ".", "P", "a", "r", "s", "e", "U", "i", "n", "t", ":", " ", "p", "a", "r", "s", "i", "n", "g", " ", "\"">>
       \o e.subject \o <<"\"", ":", " ">> \o e.detail
  ELSE <<e.kind>>

\* word occurs in text
Mentions(text, word) ==
  \E i \in 1..(Len(text) - Len(word) + 1) : SubSeq(text, i, i + Len(word) - 1) = word

\* the body is a page in the printed layout: the label, the header and the two
\* counter lines with a token at each of the seven positions
IsPrintedPage(b) == SevenTokens(b) # << >> /\ StubBodyOf(SevenTokens(b)) = b

\* the first of the seven positions whose token is no unsigned integer, 0 if none
FirstBad(toks) ==
  IF \A i \in 1..7 : IsUint64(toks[i]) THEN 0
  ELSE CHOOSE i \in 1..7 : ~IsUint64(toks[i]) /\ \A j \in 1..(i - 1) : IsUint64(toks[j])

\* C10 as claimed: a token that is no unsigned decimal integer makes the parse fail
\* with a parse error that names the field of that position, and no record is
\* emitted.
C10_BadTokenErrorNamesField ==
  \A t \in Callers : \A k \in Slots :
    Parsed(worker[t][k]) =>
      LET toks == SevenTokens(worker[t][k].got.resp.Body)
      IN  (/\ IsPrintedPage(worker[t][k].got.resp.Body)
           /\ FirstBad(toks) # 0
           /\ ~IsDecimal(toks[FirstBad(toks)])) =>
            /\ worker[t][k].err.kind = "NumError"
            /\ Mentions(ErrorText(worker[t][k].err), FieldNames[FirstBad(toks)])
            /\ NumRecords(t, k) = 0

\* C10 as amended: on a page in the stub-status layout, a token that is no unsigned
\* decimal integer makes the parse fail and no record is emitted; the error is
\* strconv's error for the first token ParseUint rejects (invalid syntax for a
\* token that is no decimal integer, value out of range for one above the largest
\* uint64), which quotes that token.
C10_BadTokenIsSyntaxError ==
  \A t \in Callers : \A k \in Slots :
    Parsed(worker[t][k]) =>
      LET toks == SevenTokens(worker[t][k].got.resp.Body)
      IN  (IsPrintedPage(worker[t][k].got.resp.Body) /\ FirstBad(toks) # 0) =>
            /\ worker[t][k].pc # "panic"
            /\ worker[t][k].err =
                 NumError(toks[FirstBad(toks)],
                          IF IsDecimal(toks[FirstBad(toks)]) THEN "value out of range"
                          ELSE "invalid syntax")
            /\ Mentions(ErrorText(worker[t][k].err), toks[FirstBad(toks)])
            /\ NumRecords(t, k) = 0

\* a page whose waiting token alone is no number has failed on that token
C10_Witness ==
  /\ worker[1][1].pc = "exit"
  /\ worker[1][1].got.resp.Body =
       StubBodyOf(<<<<"0">>, <<"0">>, <<"0">>, <<"0">>, <<"0">>, <<"0">>, <<"7", "x">>>>)
  /\ worker[1][1].err = NumError(<<"7", "x">>, "invalid syntax")
  /\ NumRecords(1, 1) = 0 /\ NumErrors(1, 1) = 1

(***************************************************************************)
(* One worker holding the outcome of n.client.Get: the dispatcher gatherUrl *)
(* and the tags of getTags, over status codes, Content-Type values and     *)
(* address forms.                                                          *)
(***************************************************************************)
Schemes == {"http", "https", "ftp"}

\* the names before the port of an authority; an IPv6 literal is in brackets
HostNames == {<<"localhost">>, <<"[", ":", ":", "1", "]">>}

\* what follows the name: nothing, a colon and a port, a colon alone
PortParts == {<< >>, <<":", "9443">>, <<":">>}

TagAddress(scheme, name, portPart) == <<scheme, "://">> \o name \o portPart \o <<"/status">>

TagAddresses ==
  {TagAddress(sc, h, p) : sc \in Schemes, h \in HostNames, p \in PortParts}

StatusCodes == {199, 200, 201, 204, 299, 300, 404, 500}

\* resp.Status of a response with this code: its digits (the reason phrase that
\* follows them is left out)
StatusLine(code) == Decimal(code)

\* the media types a Content-Type header names, the absent header included
MediaTypes ==
  {<<"text/plain">>, <<"application/json">>, <<"text/html">>, <<"TEXT/PLAIN">>, << >>}

\* the parameters after the media type
MediaParams == {<< >>, <<";", " charset=utf-8">>, <<";", " charset=utf-8", ";", " q=1">>}

DispatchBodies == {ExampleBody, ShortCountsBody, TruncatedBody, <<"{", "}">>}

DispatchResponses ==
  {Response(code, StatusLine(code), m \o q, b) :
     code \in StatusCodes, m \in MediaTypes, q \in MediaParams, b \in DispatchBodies}

DispatchOutcomes ==
  {Got(resp) : resp \in DispatchResponses} \cup {GetFailed(e) : e \in TransportErrors}

\* a worker of a running Gather call holds the outcome of its request
InitDispatch ==
  /\ Urls \in {<<a>> : a \in TagAddresses}
  /\ Configured([SSLCA |-> "", SSLCert |-> "", SSLKey |-> "", InsecureSkipVerify |-> FALSE])
  /\ ResponseTimeout = createHttpClient("", "", "", FALSE, 0).ResponseTimeout
  /\ client = createHttpClient("", "", "", FALSE, 0).client
  /\ overlap = FALSE
  /\ cycle = 1
  /\ pc = [t \in Callers |-> IF t = 1 THEN "loop" ELSE "idle"]
  /\ idx = [t \in Callers |-> IF t = 1 THEN 1 ELSE 0]
  /\ wg = [t \in Callers |-> IF t = 1 THEN 1 ELSE 0]
  /\ ret = [t \in Callers |-> NoReturn]
  /\ acc = [t \in Callers |-> EmptyAcc]
  /\ \E got \in DispatchOutcomes :
       worker = [t \in Callers |-> [k \in Slots |->
                   IF t = 1 /\ k = 1
                   THEN [NoWorker EXCEPT !.pc = "resp",
                                         !.addr = urlParse(Urls[1]).url,
                                         !.got = got]
                   ELSE NoWorker]]
  /\ panic = ""

SpecDispatch == InitDispatch /\ [][NextParse]_vars

\* gatherUrl has run on the response this worker obtained
Dispatched(w) == w.got.err = NoError /\ ~w.addr.isNil /\ (Processed(w) \/ w.pc = "panic")

\* C11 as stated: the dispatcher fails with the status error exactly when the
\* status code of the response is outside 200..299, and every code from 200 to
\* 299 goes on to the content-type dispatch.
C11_StatusErrorOutside2xx ==
  \A t \in Callers : \A k \in Slots :
    LET w == worker[t][k]
    IN  Dispatched(w) =>
          (w.err.kind = "status" <=> w.got.resp.StatusCode \notin 200..299)

\* C11 amended: the dispatcher fails with the status error, which carries the
\* address and the status of the response, exactly when the status code is not
\* 200; only a response with code 200 goes on to the content-type dispatch.
C11_StatusErrorUnless200 ==
  \A t \in Callers : \A k \in Slots :
    LET w == worker[t][k]
    IN  Dispatched(w) =>
          IF w.got.resp.StatusCode # 200
          THEN /\ Processed(w)
               /\ w.err = [kind |-> "status", subject |-> Urls[k],
                           detail |-> w.got.resp.Status]
               /\ NumRecords(t, k) = 0
          ELSE w.err.kind # "status"

\* a response with code 204 has been turned into the status error
C11_Witness ==
  \E t \in Callers : \E k \in Slots :
    /\ Dispatched(worker[t][k])
    /\ worker[t][k].got.resp.StatusCode = 204
    /\ worker[t][k].err.kind = "status"

\* what the worker of address k has left behind: whether it panicked, its
\* records in the accumulator, the error it returned
Observed(t, k) ==
  [panic |-> worker[t][k].pc = "panic",
   metrics |-> {x.metric : x \in {y \in BagToSet(acc[t].metrics) : y.by = k}},
   err |-> worker[t][k].err]

\* the same of the result of a parser
Effect(res) ==
  [panic |-> res.panic,
   metrics |-> {res.metrics[i] : i \in 1..Len(res.metrics)},
   err |-> res.err]

\* C12: for a response that passed the status test, the routing depends only on
\* the part of the Content-Type value before the first ';': text/plain has the
\* effect of the plain-text parser on the body, application/json the effect of
\* the JSON decoder, and every other value, the absent header included, is the
\* error that names that content type, with no parser's effect and no record.
C12_RoutingByMediaType ==
  \A t \in Callers : \A k \in Slots :
    LET w == worker[t][k]
        body == w.got.resp.Body
    IN  (Dispatched(w) /\ w.got.resp.StatusCode = 200) =>
          \A m \in MediaTypes : \A q \in MediaParams :
            w.got.resp.ContentType = m \o q =>
              IF m = <<"text/plain">>
              THEN Observed(t, k) = Effect(gatherStubStatusUrl(body, getTags(w.addr)))
              ELSE IF m = <<"application/json">>
              THEN Observed(t, k) = Effect(gatherStatusUrl(body, getTags(w.addr)))
              ELSE /\ Processed(w)
                   /\ w.err = [kind |-> "contentType", subject |-> Urls[k], detail |-> m]
                   /\ NumRecords(t, k) = 0

\* a text/plain response with parameters after the media type was parsed into a
\* record
C12_Witness ==
  \E t \in Callers : \E k \in Slots :
    LET w == worker[t][k]
    IN  /\ Dispatched(w)
        /\ w.got.resp.StatusCode = 200
        /\ w.got.resp.ContentType = <<"text/plain", ";", " charset=utf-8">>
        /\ NumRecords(t, k) = 1

\* the request of this worker returned a response
Obtained(w) == w.got.resp # NoResponse

\* the worker is past gatherUrl: it returned, or it panicked
Finished(w) == Processed(w) \/ w.pc = "panic"

\* C13: the body of every response a worker obtained has been released exactly
\* once when the worker is past gatherUrl, on every exit path (status other than
\* success, unrecognized content type, parse failure, panic on a body with too
\* few tokens, success); it is not released before that, and never when the
\* request returned no response.
C13_BodyReleasedOnce ==
  \A t \in Callers : \A k \in Slots :
    LET w == worker[t][k]
    IN  w.closed = IF Finished(w) /\ Obtained(w) THEN 1 ELSE 0

\* the worker that panicked on the body with too few tokens has released it
C13_Witness ==
  \E t \in Callers : \E k \in Slots :
    LET w == worker[t][k]
    IN  /\ w.pc = "panic"
        /\ w.got.resp.Body = ShortCountsBody
        /\ w.closed = 1

\* the tags of the records the accumulator holds for address k
TagsOf(t, k) == {x.metric.tags : x \in {y \in BagToSet(acc[t].metrics) : y.by = k}}

\* a host name without the brackets of an IPv6 literal
Unbracketed(h) == IF Head(h) = "[" THEN SubSeq(h, 2, Len(h) - 1) ELSE h

\* the port of the scheme
DefaultPort(scheme) ==
  IF scheme = "http" THEN <<"80">> ELSE IF scheme = "https" THEN <<"443">> ELSE << >>

\* C14: the tags of an address are exactly server and port; with a host and a
\* port in the authority they are that host and that port; with no port in the
\* authority, server is the host of the URL and port is 80 for http, 443 for
\* https and empty for any other scheme.
C14_TagsOfAddress ==
  \A t \in Callers : \A k \in Slots : \A tags \in TagsOf(t, k) :
    /\ DOMAIN tags = {"server", "port"}
    /\ \A sc \in Schemes : \A h \in HostNames : \A p \in PortParts :
         Urls[k] = TagAddress(sc, h, p) =>
           IF Len(p) = 2
           THEN tags.server = Unbracketed(h) /\ tags.port = <<p[2]>>
           ELSE /\ tags.server = IF p = << >> THEN h ELSE Unbracketed(h)
                /\ tags.port = DefaultPort(sc)

\* C20: the port tag of an address is empty only when its scheme is neither
\* http nor https: an http or https address whose authority ends in a colon
\* with no port after it has port 80 or 443.
C20_EmptyPortOnlyForOtherSchemes ==
  \A t \in Callers : \A k \in Slots : \A tags \in TagsOf(t, k) :
    tags.port = << >> => Urls[k][1] \notin {"http", "https"}

(***************************************************************************)
(* Properties of the client factory and of the configuration.              *)
(***************************************************************************)
\* C15: the timeout of the client a call constructs is 5 seconds when the
\* requested timeout is below one second (zero, the unset field, included) and
\* is the requested timeout when that is one second or more: 200 ms gives 5 s,
\* 1 s gives 1 s, 10 s gives 10 s.
C15_EffectiveTimeout ==
  [][ \A t \in Callers :
        (pc[t] = "create" /\ pc'[t] = "loop") =>
          /\ ~client'.isNil
          /\ client'.Timeout = IF ResponseTimeout < Second
                               THEN 5 * Second ELSE ResponseTimeout ]_vars

\* a client with a timeout of 5 seconds, which is not among the timeouts a
\* configuration requests: the floor was applied to 0 or to 200 ms
C15_Witness ==
  /\ 5 * Second \notin RequestedTimeouts
  /\ ~client.isNil
  /\ client.Timeout = 5 * Second
  /\ \E t \in Callers : pc[t] = "loop"

\* a step of a Gather call or of one of its workers
GatherStep == \E t \in Callers : pc[t] # "idle" \/ pc'[t] # "idle"

\* C16 as stated: a Gather call leaves the configuration as it found it: the
\* address list, the TLS paths, the insecure flag and the response-timeout
\* field, also in the call that constructs the client with a requested timeout
\* below one second.
C16_ConfigurationUnchanged ==
  [][ GatherStep => /\ config' = config
                    /\ ResponseTimeout' = ResponseTimeout ]_vars

\* C16 amended: a Gather call leaves the address list, the TLS paths and the
\* insecure flag as it found them; the response-timeout field is left as it is
\* except by the call that constructs the client with a requested timeout below
\* one second, which sets the field to 5 seconds.
C16_OnlyTimeoutFloorWritten ==
  [][ GatherStep =>
        /\ config' = config
        /\ ResponseTimeout' =
             IF (\E t \in Callers : pc[t] = "create" /\ pc'[t] = "loop")
                /\ ResponseTimeout < Second
             THEN 5 * Second ELSE ResponseTimeout ]_vars

\* the call that constructed the client has left 5 seconds in the field, a
\* value no configuration requests
C16_Witness ==
  /\ 5 * Second \notin RequestedTimeouts
  /\ ResponseTimeout = 5 * Second
  /\ \E t \in Callers : HasReturned(t)

(***************************************************************************)
(* The last line of the page.                                              *)
(***************************************************************************)
\* the number of lines after the first colon of b that end in a newline
LinesAfterColon(b) ==
  LET colon == IndexFrom(b, ":", 1)
  IN  IF colon = 0 THEN 0 ELSE Len(TerminatedLines(SubSeq(b, colon + 1, Len(b))))

\* b holds the seven numbers at their positions, but its Reading/Writing/Waiting
\* line ends with the input, not with a newline
LastLineUnterminated(b) == ~AllSevenParse(b) /\ AllSevenParse(b \o <<"\n">>)

\* C19: each of the four lines the parser reads must end with a newline: a body
\* with fewer than four such lines after the colon yields no record, and a body
\* that holds all seven numbers at their positions but whose last line reaches
\* the end of the input without a newline is rejected with the end-of-input
\* error, without a panic and without a record.
C19_LastLineNeedsNewline ==
  \A t \in Callers : \A k \in Slots :
    LET w == worker[t][k]
        b == w.got.resp.Body
    IN  Parsed(w) =>
          /\ LinesAfterColon(b) < 4 => NumRecords(t, k) = 0
          /\ LastLineUnterminated(b) =>
               /\ Processed(w)
               /\ w.err = ErrEOF
               /\ NumRecords(t, k) = 0

\* the example page without its last newline has been rejected
C19_Witness ==
  \E t \in Callers : \E k \in Slots :
    LET w == worker[t][k]
    IN  /\ Parsed(w)
        /\ w.got.resp.Body \o <<" ", "\n">> = ExampleBody
        /\ LastLineUnterminated(w.got.resp.Body)
        /\ w.pc = "exit"
        /\ w.err = ErrEOF
        /\ NumRecords(t, k) = 0

(***************************************************************************)
(* Gather calls that overlap on one collector.                             *)
(***************************************************************************)
\* the collector at the start of the process, with callers that do not wait for
\* one another
InitOverlap ==
  /\ Urls = <<AddrLocalhost>>
  /\ \E s \in TLSSettings : Configured(s)
  /\ ResponseTimeout = 0
  /\ client = NilClient
  /\ overlap = TRUE
  /\ cycle = 0
  /\ pc = [t \in Callers |-> "idle"]
  /\ idx = [t \in Callers |-> 0]
  /\ wg = [t \in Callers |-> 0]
  /\ ret = [t \in Callers |-> NoReturn]
  /\ acc = [t \in Callers |-> EmptyAcc]
  /\ worker = [t \in Callers |-> [k \in Slots |-> NoWorker]]
  /\ panic = ""

SpecOverlap == InitOverlap /\ [][Next]_vars

\* call t has found n.client nil and has not yet assigned it: its next step is
\* n.createHttpClient() and the write of n.client
Constructing(t) == pc[t] = "create"

\* a worker of call t is about to read n.client in n.client.Get
ReadingClient(t) == \E k \in Slots : worker[t][k].pc = "get"

\* C17: when two Gather calls overlap, the client is initialized at most once: no
\* two calls are both constructing a client, and no worker is reading the client
\* field while another call is about to write it.
C17_ClientInitializedOnceUnderOverlap ==
  \A t \in Callers : \A u \in Callers \ {t} :
    /\ ~(Constructing(t) /\ Constructing(u))
    /\ ~(ReadingClient(t) /\ Constructing(u))

(***************************************************************************)
(* Termination of Gather.                                                  *)
(***************************************************************************)
\* C18: under fair scheduling, with every request ending in a response or an
\* error, every Gather call eventually returns, whatever the configured
\* addresses are (valid, unparseable, failing, timing out).  A call that is to
\* return is never left in progress where nothing can happen any more: while a
\* call is in progress no goroutine has panicked, or a step is still possible.
C18_CallInProgressCanProceed ==
  \A t \in Callers : pc[t] # "idle" => (panic = "" \/ ENABLED Next)
====
